---- MODULE Spec2Model ----
(***************************************************************************)
(* Wake decision engine of astrbot_plugin_wakepro (src/main.py,            *)
(* src/similarity.py).                                                     *)
(*                                                                         *)
(* The plugin keeps a process-wide store  StateManager._groups  of         *)
(* GroupState / MemberState records and runs the coroutine                 *)
(* on_group_msg  once per incoming group message.  Coroutines of several   *)
(* messages interleave only at the awaits that really suspend: the LLM     *)
(* call of the empty-mention path, the send of its answer, and the history *)
(* fetch of the topic-relevance trigger.  Everything between two such      *)
(* awaits is one atomic step here, as it is under asyncio.                 *)
(*                                                                         *)
(* Texts are modelled as the sequence of their whitespace separated words; *)
(* times and scores are integers (one clock unit per Tick).                *)
(***************************************************************************)
EXTENDS Integers, Sequences, FiniteSets, TLC

VARIABLES
    now,      \* StateManager.now(): the wall clock
    conf,     \* self.conf: the plugin configuration, fixed after construction
    groups,   \* StateManager._groups: gid -> GroupState
    events,   \* the live AstrMessageEvent objects, by object identity
    frames,   \* the on_group_msg coroutine of each live event
    owed,     \* the senders the host is preparing an answer for
    obs       \* what the most recent step did (observation only)

vars == <<now, conf, groups, events, frames, owed, obs>>

---------------------------------------------------------------------------
(* Bounds of the exploration *)

\* number of event objects alive at the same time
MaxEvents == 3
\* number of clock ticks after construction
MaxTicks == 1

\* time.time() when the plugin is constructed: far from the 0.0 the
\* MemberState / GroupState timestamps default to
Epoch == 10

Slots == 1..MaxEvents
Times == Epoch..(Epoch + MaxTicks)

GIDS == {"g1", "g2", "g3"}
\* event.get_self_id()
BID == "bot"
UIDS == {BID, "u1", "u2"}

\* BUILT_CMDS; the two entries with a space are two words, their second
\* (Chinese) word is written in pinyin
BUILT_CMDS ==
    { <<"t2i">>, <<"tts">>, <<"sid">>, <<"op">>, <<"wl">>,
      <<"dashboard_update">>, <<"alter_cmd">>, <<"provider">>, <<"model">>,
      <<"ls">>, <<"new">>, <<"switch", "xuhao">>, <<"rename", "xinmingzi">>,
      <<"del">>, <<"reset">>, <<"history">>, <<"persona">>,
      <<"tool", "ls">>, <<"key">>, <<"websearch">> }

---------------------------------------------------------------------------
(* Strings *)

\* Python's  word in text  on word sequences: word occurs contiguously
Contains(text, word) ==
    \E k \in 0..(Len(text) - Len(word)) :
        \A j \in 1..Len(word) : text[k + j] = word[j]

RECURSIVE Join(_)
\* " ".join(strs)
Join(strs) ==
    IF strs = <<>> THEN <<>>
    ELSE IF Len(strs) = 1 THEN strs[1]
    ELSE strs[1] \o Join(Tail(strs))

\* reversed(xs)
Reversed(xs) == [k \in 1..Len(xs) |-> xs[Len(xs) + 1 - k]]

---------------------------------------------------------------------------
(* Sentiment scorer (module .sentiment): four pure functions of the text.  *)
(* Each word carries a fixed score; a text scores as its strongest word.   *)

Lexicon(kind) ==
    CASE kind = "ask"    -> [w \in {"why"} |-> 2]
      [] kind = "bored"  -> [w \in {"meh"} |-> 2]
      [] kind = "shut"   -> [w \in {"shh", "stfu"} |-> 2]
      [] kind = "insult" -> [w \in {"darn", "damn", "stfu"} |->
                                IF w = "darn" THEN 2 ELSE 3]

Score(kind, text) ==
    LET lex  == Lexicon(kind)
        hits == {lex[text[k]] : k \in {j \in DOMAIN text : text[j] \in DOMAIN lex}}
    IN  IF hits = {} THEN 0 ELSE CHOOSE x \in hits : \A y \in hits : y <= x

ask(text)    == Score("ask", text)
bored(text)  == Score("bored", text)
shut(text)   == Score("shut", text)
insult(text) == Score("insult", text)

---------------------------------------------------------------------------
(* Configuration (self.conf).  A threshold of 0 is a disabled mechanism.   *)

\* random.random() returns a value below prob_wake, or one not below it
Draws(c) == {0, c.prob_wake}

\* every key of the configuration, each mechanism disabled
ConfOff ==
    [ group_whitelist      |-> {},
      user_blacklist       |-> {},
      wake_cd              |-> 2,
      wake_forbidden_words |-> {},
      block_builtin        |-> FALSE,
      pend_cd              |-> 1,
      mention_wake         |-> {},
      wake_extend          |-> 0,
      relevant_wake        |-> 0,
      ask_wake             |-> 0,
      bored_wake           |-> 0,
      prob_wake            |-> 0,
      shutup               |-> 0,
      insult               |-> 0,
      ai                   |-> 0,
      sult_multiple        |-> 1,
      silence_multiple     |-> 1 ]

\* every wake trigger enabled, no pending window
ConfWake ==
    [ConfOff EXCEPT !.wake_cd = 1, !.pend_cd = 0,
                    !.mention_wake = {<<>>, <<"neko">>},
                    !.wake_extend = 1, !.relevant_wake = 5, !.ask_wake = 1,
                    !.bored_wake = 1, !.prob_wake = 1]

\* a pending window after the cooldown, no allow-list; messages wake by
\* the flag, by the mention name, or by a question after the history fetch
ConfPend ==
    [ConfOff EXCEPT !.wake_cd = 1, !.pend_cd = 2,
                    !.mention_wake = {<<"neko">>},
                    !.relevant_wake = 5, !.ask_wake = 1]

\* the three mutes enabled; messages wake by the flag, or by chance after
\* the history fetch
ConfMute ==
    [ConfOff EXCEPT !.wake_cd = 1, !.pend_cd = 0,
                    !.relevant_wake = 5, !.prob_wake = 1,
                    !.shutup = 1, !.insult = 2, !.ai = 1]

\* allow-list, deny-list, forbidden words and built-in commands; no cooldown,
\* messages wake by the flag
ConfGate ==
    [ConfOff EXCEPT !.group_whitelist = {"g1", "g2"},
                    !.user_blacklist = {"u2"},
                    !.wake_forbidden_words = {<<"nsfw">>},
                    !.block_builtin = TRUE,
                    !.wake_cd = 0, !.pend_cd = 2, !.relevant_wake = 5]

\* only the at/wake-command flag and the mention name wake; the pending
\* window is not longer than the cooldown
ConfQuiet ==
    [ConfOff EXCEPT !.wake_cd = 1, !.pend_cd = 1,
                    !.mention_wake = {<<"neko">>}]

\* two allow-listed groups with the group mute and the member mute, and a
\* pending window longer than the cooldown; messages wake by the flag
ConfIso ==
    [ConfOff EXCEPT !.group_whitelist = {"g1", "g2"},
                    !.wake_cd = 1, !.pend_cd = 2,
                    !.shutup = 1, !.insult = 2]

Configs ==
    {ConfOff, ConfQuiet, ConfWake, ConfPend, ConfMute, ConfGate, ConfIso}

---------------------------------------------------------------------------
(* Incoming messages: text, the platform's at/wake-command flag, and the   *)
(* shape of the component chain ("at_bot": exactly one At of the bot).     *)
(* Under a configuration the users type the words its mechanisms react to, *)
(* and the senders are those its gates tell apart.                         *)

Msg(text, at, chain) ==
    [message_str |-> text, is_at_or_wake_command |-> at, chain |-> chain]

Plain(w) == Msg(<<w>>, FALSE, "plain")

Vocabulary(c) ==
    CASE c = ConfWake -> {"hi", "neko", "why", "meh"}
      [] c = ConfPend -> {"hi", "yo", "neko", "why"}
      [] c = ConfMute -> {"hi", "shh", "damn", "darn", "stfu"}
      [] c = ConfGate -> {"hi", "ls", "nsfw"}
      [] c = ConfIso  -> {"hi", "shh", "damn"}
      [] OTHER        -> {"hi", "neko", "why", "damn"}

Inputs(c) ==
    { Plain(w) : w \in Vocabulary(c) }
    \cup { Msg(<<w>>, TRUE, "at_plain") :
               w \in Vocabulary(c) \cap {"hi", "shh", "damn"} }
    \cup { Msg(<<>>, TRUE, "at_bot") }

\* the senders whose messages are all of Inputs
Senders(c) == {<<"g1", "u1">>}

\* the senders a gate tells apart by the sender alone: they write "hi"
Bystanders(c) ==
    CASE c = ConfMute -> {<<"g1", "u2">>}
      [] c = ConfGate -> {<<"g1", BID>>, <<"g2", "u2">>, <<"g3", "u1">>}
      [] c = ConfIso  -> {<<"g2", "u1">>}
      [] OTHER        -> {}

Arrivals(c) ==
    { <<a[1], a[2], m>> : a \in Senders(c), m \in Inputs(c) }
    \cup { <<a[1], a[2], Plain("hi")>> : a \in Bystanders(c) }

---------------------------------------------------------------------------
(* Records *)

EmptyFn == [x \in {} |-> x]

\* class MemberState (msg_times is never read or written by the plugin)
MemberState(uid) ==
    [ uid |-> uid, silence_until |-> 0, last_wake |-> 0, pend_cd |-> 0,
      pend |-> <<>>, lock |-> FALSE ]

\* class GroupState
GroupState(gid) == [gid |-> gid, members |-> EmptyFn, shutup_until |-> 0]

\* StateManager.get_group: the store after the lookup
get_group(gs, gid) ==
    IF gid \in DOMAIN gs THEN gs ELSE gs @@ (gid :> GroupState(gid))

\* An AstrMessageEvent: orig keeps the text it arrived with (observation)
NoEvent ==
    [ gid |-> "", uid |-> "", message_str |-> <<>>, orig |-> <<>>,
      is_at_or_wake_command |-> FALSE, stopped |-> FALSE ]

\* The coroutine of on_group_msg: where it is suspended (pc), its locals msg
\* and chain and, for observation, the collaborators it has called so far and
\* the last_wake and silence_until its member had when it suspended
NoFrame ==
    [ pc |-> "free", msg |-> <<>>, chain |-> "", calls |-> {},
      stamp |-> <<0, 0>> ]

ObsNone ==
    [ op |-> "none", gid |-> "", uid |-> "", gate |-> "", cascade |-> FALSE,
      at0 |-> FALSE, msg |-> <<>>, gap |-> -1, hist |-> "", draw |-> -1,
      wake |-> FALSE, reason |-> "", calls |-> {}, post |-> "",
      prev_wake |-> -1, merged |-> 0, until |-> -1,
      flag |-> FALSE, stopped |-> FALSE ]

\* WakeProPlugin.__init__(context, config), on an empty store
WakeProPlugin(config) ==
    /\ now = Epoch
    /\ conf = config
    /\ groups = EmptyFn
    /\ events = [i \in Slots |-> NoEvent]
    /\ frames = [i \in Slots |-> NoFrame]
    /\ owed = {}
    /\ obs = ObsNone

Init == \E config \in Configs : WakeProPlugin(config)

---------------------------------------------------------------------------
(* The body of on_group_msg, as operators on the record                    *)
(*   s = [g: the store, ev: the events, fr: the coroutines, owed,          *)
(*        w: the locals wake and reason, o: the observation]               *)
(* i is the event (and coroutine) the body runs for.                       *)

Range(f) == {f[k] : k \in DOMAIN f}

\* g.members[uid] of the running event
Member(s, i) == s.g[s.ev[i].gid].members[s.ev[i].uid]

\* last_wake and silence_until of g.members[uid], for observation
Stamp(s, i) == <<Member(s, i).last_wake, Member(s, i).silence_until>>

\* event.stop_event()
stop_event(s, i) == [s EXCEPT !.ev[i].stopped = TRUE]

\* a return statement of on_group_msg
Return(s, i) == [s EXCEPT !.fr[i] = [NoFrame EXCEPT !.pc = "done"]]

Called(s, what) == [s EXCEPT !.o.calls = @ \cup {what}]

\* lines 325-334: AI silence
ai_silence(s, i) ==
    IF conf.ai # 0
    THEN LET ai_th == insult(s.fr[i].msg)
             s1    == Called(s, "insult_ai")
         IN  IF ai_th > conf.ai
             THEN LET silence_sec == ai_th * conf.silence_multiple
                      e == s.ev[i]
                  IN  Return(stop_event(
                          [s1 EXCEPT
                             !.g[e.gid].members[e.uid].silence_until =
                                 now + silence_sec,
                             !.o.post = "ai",
                             !.o.until = now + silence_sec], i), i)
             ELSE Return(s1, i)
    ELSE Return(s, i)

\* an insult silence kept per user id, for every group the user is in
insult_silence_by_uid(s, i) ==
    LET insult_th == insult(s.fr[i].msg)
        e == s.ev[i]
    IN  IF conf.insult # 0 /\ insult_th > conf.insult
        THEN Return(
                 [s EXCEPT
                    !.g = [gid \in DOMAIN s.g |->
                             IF e.uid \in DOMAIN s.g[gid].members
                             THEN [s.g[gid] EXCEPT
                                      !.members[e.uid].silence_until =
                                          now + insult_th * conf.sult_multiple]
                             ELSE s.g[gid]],
                    !.o.post = "insult",
                    !.o.until = now + insult_th * conf.sult_multiple], i)
        ELSE ai_silence(s, i)

\* lines 314-323: insult silence, the event is not stopped
insult_silence(s, i) ==
    IF conf.insult # 0
    THEN LET insult_th == insult(s.fr[i].msg)
             s1        == Called(s, "insult")
         IN  IF insult_th > conf.insult
             THEN LET silence_sec == insult_th * conf.sult_multiple
                      e == s.ev[i]
                  IN  Return(
                          [s1 EXCEPT
                             !.g[e.gid].members[e.uid].silence_until =
                                 now + silence_sec,
                             !.o.post = "insult",
                             !.o.until = now + silence_sec], i)
             ELSE ai_silence(s1, i)
    ELSE ai_silence(s, i)

\* lines 303-312: group shutup
shutup(s0, i) ==
    LET s == [s0 EXCEPT !.o.post = "none"]
    IN
    IF conf.shutup # 0
    THEN LET shut_th == shut(s.fr[i].msg)
             s1      == Called(s, "shut")
         IN  IF shut_th > conf.shutup
             THEN LET silence_sec == shut_th * conf.sult_multiple
                      e == s.ev[i]
                  IN  Return(stop_event(
                          [s1 EXCEPT
                             !.g[e.gid].shutup_until = now + silence_sec,
                             !.o.post = "shutup",
                             !.o.until = now + silence_sec], i), i)
             ELSE insult_silence(s1, i)
    ELSE insult_silence(s, i)

\* a handler that stamps the wake time whether or not it wakes
stamp_always(s, i) ==
    LET e == s.ev[i]
    IN  [s EXCEPT !.g[e.gid].members[e.uid].last_wake = now,
                  !.o.wake = s.w.wake,
                  !.o.reason = s.w.reason,
                  !.o.prev_wake = Member(s, i).last_wake]

\* lines 292-301: the wake is committed and its reason logged
trigger_wake(s, i) ==
    IF s.w.wake
    THEN LET e == s.ev[i]
         IN  [s EXCEPT
                !.g[e.gid].members[e.uid].pend_cd = now + conf.pend_cd,
                !.g[e.gid].members[e.uid].last_wake = now,
                !.ev[i].is_at_or_wake_command = TRUE,
                !.o.wake = TRUE,
                !.o.reason = s.w.reason,
                !.o.prev_wake = Member(s, i).last_wake]
    ELSE s

Wake(s, reason) == [s EXCEPT !.w = [wake |-> TRUE, reason |-> reason]]

\* lines 283-290: probabilistic wake, r is the value random.random() returns
prob_wake(s, i, r) ==
    IF ~s.w.wake /\ conf.prob_wake # 0
    THEN LET s1 == [Called(s, "random") EXCEPT !.o.draw = r]
         IN  IF r < conf.prob_wake THEN Wake(s1, "prob") ELSE s1
    ELSE s

\* lines 274-281: bored wake
bored_wake(s, i) ==
    IF ~s.w.wake /\ conf.bored_wake # 0
    THEN LET s1 == Called(s, "bored")
         IN  IF bored(s.fr[i].msg) > conf.bored_wake
             THEN Wake(s1, "bored") ELSE s1
    ELSE s

\* an ask trigger that does not look whether ask_wake is configured
ask_wake_unguarded(s, i) ==
    IF ~s.w.wake /\ ask(s.fr[i].msg) > conf.ask_wake
    THEN Wake(Called(s, "ask"), "ask")
    ELSE s

\* lines 265-272: ask wake
ask_wake(s, i) ==
    IF ~s.w.wake /\ conf.ask_wake # 0
    THEN LET s1 == Called(s, "ask")
         IN  IF ask(s.fr[i].msg) > conf.ask_wake
             THEN Wake(s1, "ask") ELSE s1
    ELSE s

\* lines 265-334: what follows the topic-relevance trigger
AfterRelevant(s, i, r) ==
    shutup(trigger_wake(prob_wake(bored_wake(ask_wake(s, i), i), i, r), i), i)

---------------------------------------------------------------------------
(* Topic relevance: the history fetch and the similarity scorer *)

Rec(role, content) == [role |-> role, content |-> content]

\* What the conversation manager may hold when the history is fetched:
\* no current conversation id, a lookup that raises (an Exception, or the
\* CancelledError of a cancelled call, which is a BaseException), or a stored
\* history.
Conversation(cid, raises, history) ==
    [cid |-> cid, raises |-> raises, history |-> history]

Conversations ==
    { Conversation(FALSE, "", <<>>),
      Conversation(TRUE, "Exception", <<>>),
      Conversation(TRUE, "CancelledError", <<>>),
      Conversation(TRUE, "", <<>>),
      Conversation(TRUE, "", <<Rec("user", <<"hi">>)>>),
      Conversation(TRUE, "",
          <<Rec("user", <<"why">>), Rec("assistant", <<"hi">>)>>),
      Conversation(TRUE, "",
          <<Rec("assistant", <<"a1">>), Rec("assistant", <<>>),
            Rec("assistant", <<"a2">>), Rec("user", <<"hi">>),
            Rec("assistant", <<"a3">>), Rec("assistant", <<"a4">>),
            Rec("assistant", <<"a5">>), Rec("assistant", <<"a6">>)>>) }

\* xs[-count:]
LastN(xs, count) ==
    IF Len(xs) <= count THEN xs ELSE SubSeq(xs, Len(xs) - count + 1, Len(xs))

\* WakeProPlugin._get_history_msg: none is Python's None; except Exception
\* (line 116) does not catch CancelledError, which leaves the function
_get_history_msg(conv, role, count) ==
    IF conv.raises = "CancelledError"
    THEN [none |-> FALSE, list |-> <<>>, cancelled |-> TRUE]
    ELSE IF conv.raises # "" \/ ~conv.cid
    THEN [none |-> TRUE, list |-> <<>>, cancelled |-> FALSE]
    ELSE LET wanted(rec) == rec.role = role /\ rec.content # <<>>
             contents == SelectSeq(conv.history, wanted)
             contexts == [k \in DOMAIN contents |-> contents[k].content]
         IN  [ none |-> FALSE, cancelled |-> FALSE,
               list |-> IF count # 0 THEN LastN(contexts, count) ELSE contexts ]

\* positional parameters of  Similarity.cosine(cls, a, b)  after cls
CosineArity == 2

\* Similarity.cosine applied to the positional arguments args: a call with
\* another number of arguments raises TypeError.  The score itself (jieba
\* tokens, topic weights, sigmoid) is abstracted to tenths: texts sharing
\* no word score sigmoid(-4.8), about 0; texts sharing a word score high.
cosine(args) ==
    IF Len(args) # CosineArity
    THEN [error |-> TRUE, score |-> 0]
    ELSE [ error |-> FALSE,
           score |-> IF Range(args[1]) \cap Range(args[2]) # {}
                     THEN 10 ELSE 0 ]

RECURSIVE relevant_loop(_, _, _, _)
\* lines 258-263: for bmsg in bmsgs
relevant_loop(s, i, bmsgs, k) ==
    IF k > Len(bmsgs) THEN s
    ELSE LET simi == cosine(<<s.fr[i].msg, bmsgs[k], s.ev[i].gid>>)
             s1   == Called(s, "cosine")
         IN  IF simi.error
             THEN [s1 EXCEPT !.fr[i] = [NoFrame EXCEPT !.pc = "error"],
                             !.o.post = "TypeError"]
             ELSE IF simi.score > conf.relevant_wake
             THEN Wake(s1, "relevant")
             ELSE relevant_loop(s1, i, bmsgs, k + 1)

\* lines 257-263, after the await of _get_history_msg(event, count=5)
relevant_wake(s, i, conv) ==
    LET bmsgs == _get_history_msg(conv, "assistant", 5)
        \* observation: what was fetched, and whether one of the fetched
        \* messages is similar to msg beyond the threshold
        similar(bmsg) ==
            cosine(<<s.fr[i].msg, bmsg>>).score > conf.relevant_wake
        s1 == [s EXCEPT !.o.hist =
                  IF bmsgs.cancelled THEN "cancelled"
                  ELSE IF bmsgs.none THEN "none"
                  ELSE IF bmsgs.list = <<>> THEN "empty"
                  ELSE IF \E k \in DOMAIN bmsgs.list : similar(bmsgs.list[k])
                  THEN "high" ELSE "low"]
    IN  IF bmsgs.cancelled
        THEN [s1 EXCEPT !.fr[i] = [NoFrame EXCEPT !.pc = "error"],
                        !.o.post = "CancelledError"]
        ELSE IF ~bmsgs.none /\ bmsgs.list # <<>>
        THEN relevant_loop(s1, i, bmsgs.list, 1)
        ELSE s1

\* a cascade without the wake extension
no_extend(s, i) == s

\* lines 245-253: wake extension
wake_extend(s, i) ==
    IF /\ ~s.w.wake
       /\ conf.wake_extend # 0
       /\ now - Member(s, i).last_wake <= conf.wake_extend
    THEN Wake(s, "extend")
    ELSE s

\* lines 236-243: mention wake
mention_wake(s, i) ==
    IF ~s.w.wake /\ conf.mention_wake # {}
    THEN LET names == {n \in conf.mention_wake : n # <<>>}
         IN  IF \E n \in names : Contains(s.fr[i].msg, n)
             THEN Wake(s, "mention") ELSE s
    ELSE s

\* lines 232-234: wake = event.is_at_or_wake_command
at_or_cmd(s, i) ==
    [s EXCEPT !.w = [wake   |-> s.ev[i].is_at_or_wake_command,
                     reason |-> "at_or_cmd"],
              !.o.cascade = TRUE,
              !.o.msg = s.fr[i].msg,
              !.o.at0 = s.ev[i].is_at_or_wake_command]

\* lines 232-334: the cascade up to the await of the history fetch, or to
\* the end of the handler when topic relevance is not evaluated
Cascade(s, i, r) ==
    LET s1 == wake_extend(mention_wake(at_or_cmd(s, i), i), i)
    IN  IF ~s1.w.wake /\ conf.relevant_wake # 0
        THEN [s1 EXCEPT !.fr[i].pc = "history",
                        !.fr[i].stamp = Stamp(s1, i),
                        !.fr[i].calls = s1.o.calls \cup {"history"},
                        !.o.calls = @ \cup {"history"}]
        ELSE AfterRelevant(s1, i, r)

\* lines 218-230: the empty-mention test
empty_mention(s, i, r) ==
    IF s.fr[i].msg = <<>> /\ s.fr[i].chain = "at_bot"
    THEN [s EXCEPT !.fr[i].pc = "llm",
                   !.fr[i].stamp = Stamp(s, i),
                   !.fr[i].calls = {"llm"},
                   !.o.calls = {"llm"}]
    ELSE Cascade(s, i, r)

\* entering  async with g.members[uid].lock  with the lock free
acquire(g, gid, uid) == [g EXCEPT ![gid].members[uid].lock = TRUE]

\* a lock that stays held when its  async with  block is left
never_release(g, gid, uid) == g

\* leaving  async with g.members[uid].lock
release(g, gid, uid) == [g EXCEPT ![gid].members[uid].lock = FALSE]

\* lines 210-216, inside the lock: the event is appended to the buffer and,
\* if older events are buffered, they are stopped and their texts merged
merge(s, i) ==
    LET e     == s.ev[i]
        pend  == Append(Member(s, i).pend, i)
        older == SubSeq(pend, 1, Len(pend) - 1)
        msgs  == [k \in DOMAIN older |-> s.ev[older[k]].message_str]
        s1    == [s EXCEPT !.g[e.gid].members[e.uid].pend = pend,
                           !.o.merged = Len(pend)]
    IN  IF Len(pend) > 1
        THEN [s1 EXCEPT
                !.ev = [j \in Slots |->
                          IF j \in Range(older)
                          THEN [s.ev[j] EXCEPT !.stopped = TRUE]
                          ELSE IF j = i
                          THEN [s.ev[j] EXCEPT !.message_str =
                                   Join(Reversed(Append(msgs,
                                                        e.message_str)))]
                          ELSE s.ev[j]]]
        ELSE s1

\* a handler that buffers every event that passed the gates
always_pend(s, i) ==
    LET e  == s.ev[i]
        s1 == merge([s EXCEPT !.g = acquire(s.g, e.gid, e.uid)], i)
    IN  [s1 EXCEPT !.g = release(s1.g, e.gid, e.uid)]

\* lines 207-216: inside the pending window the event is buffered under the
\* member's lock.  A coroutine that finds the lock held suspends in
\* async with  (pc "lock") until the lock is released.
pending_merge(s, i) ==
    LET e == s.ev[i]
    IN  IF now - Member(s, i).last_wake < conf.pend_cd
        THEN IF Member(s, i).lock
             THEN [s EXCEPT !.fr[i].pc = "lock", !.o.post = "waits"]
             ELSE LET s1 == merge([s EXCEPT !.g = acquire(s.g, e.gid, e.uid)],
                                  i)
                  IN  [s1 EXCEPT !.g = release(s1.g, e.gid, e.uid)]
        ELSE s

---------------------------------------------------------------------------
(* Gating checks, lines 153-205 *)

\* WakeProPlugin._is_shutup
_is_shutup(g) == g.shutup_until > now

\* a silence check that never finds the member silenced
never_silent(g, uin) == FALSE

\* WakeProPlugin._is_insult
_is_insult(g, uin) ==
    LET silence_until ==
            IF uin \in DOMAIN g.members THEN g.members[uin].silence_until ELSE 0
    IN  silence_until > now

\* a gate returns, with or without event.stop_event()
Gated(s, i, gate, stop) ==
    LET s1 == [s EXCEPT !.o.gate = gate]
    IN  Return(IF stop THEN stop_event(s1, i) ELSE s1, i)

\* lines 199-205: shutup / silence check
silence_check(s, i, r) ==
    LET e == s.ev[i]
    IN  IF _is_shutup(s.g[e.gid]) THEN Gated(s, i, "shutup", TRUE)
        ELSE IF _is_insult(s.g[e.gid], e.uid) THEN Gated(s, i, "insult", TRUE)
        ELSE LET s1 == pending_merge(s, i)
             IN  IF s1.fr[i].pc = "lock" THEN s1
                 ELSE empty_mention(s1, i, r)

\* lines 191-197: built-in commands
builtin_check(s, i, r) ==
    IF /\ conf.block_builtin
       /\ \E cmd \in BUILT_CMDS : Contains(s.ev[i].message_str, cmd)
    THEN Gated(s, i, "builtin", TRUE)
    ELSE silence_check(s, i, r)

\* lines 183-189: forbidden wake words
forbidden_check(s, i, r) ==
    IF /\ conf.wake_forbidden_words # {}
       /\ \E word \in conf.wake_forbidden_words :
              Contains(s.ev[i].message_str, word)
    THEN Gated(s, i, "forbidden", TRUE)
    ELSE builtin_check(s, i, r)

\* lines 177-181: wake cooldown
wake_cd_check(s0, i, r) ==
    LET s == [s0 EXCEPT !.o.gap = now - Member(s0, i).last_wake,
                        !.o.msg = s0.fr[i].msg,
                        !.o.at0 = s0.ev[i].is_at_or_wake_command]
    IN  IF now - Member(s, i).last_wake < conf.wake_cd
        THEN Gated(s, i, "wake_cd", TRUE)
        ELSE forbidden_check(s, i, r)

\* lines 173-175: the member's state is created on its first message
update_member(s, i) ==
    LET e == s.ev[i]
    IN  IF e.uid \notin DOMAIN s.g[e.gid].members
        THEN [s EXCEPT !.g[e.gid].members = @ @@ (e.uid :> MemberState(e.uid))]
        ELSE s

\* lines 160-171: the bot itself, the group allow-list, the user deny-list
list_check(s, i, r) ==
    LET e == s.ev[i]
    IN  IF e.uid = BID THEN Gated(s, i, "self", FALSE)
        ELSE IF /\ e.gid # ""
                /\ conf.group_whitelist # {}
                /\ e.gid \notin conf.group_whitelist
        THEN Gated(s, i, "whitelist", FALSE)
        ELSE IF e.uid \in conf.user_blacklist
        THEN Gated(s, i, "blacklist", TRUE)
        ELSE wake_cd_check(update_member(s, i), i, r)

\* lines 153-158: the locals are read and the group looked up
Entry(i, gid, uid, m) ==
    [ g  |-> get_group(groups, gid),
      ev |-> [events EXCEPT ![i] =
                 [ gid |-> gid, uid |-> uid, message_str |-> m.message_str,
                   orig |-> m.message_str,
                   is_at_or_wake_command |-> m.is_at_or_wake_command,
                   stopped |-> FALSE ]],
      fr |-> [frames EXCEPT ![i] =
                 [NoFrame EXCEPT !.pc = "run", !.msg = m.message_str,
                                 !.chain = m.chain]],
      owed |-> owed,
      w  |-> [wake |-> FALSE, reason |-> ""],
      o  |-> [ObsNone EXCEPT !.op = "recv", !.gid = gid, !.uid = uid] ]

\* a suspended coroutine is resumed: its locals are those it was suspended with
Resume(i, op) ==
    [ g  |-> groups,
      ev |-> events,
      fr |-> frames,
      owed |-> owed,
      w  |-> [wake |-> FALSE, reason |-> "at_or_cmd"],
      o  |-> [ObsNone EXCEPT !.op = op, !.gid = events[i].gid,
                             !.uid = events[i].uid,
                             !.msg = frames[i].msg,
                             !.at0 = events[i].is_at_or_wake_command,
                             !.calls = frames[i].calls] ]

---------------------------------------------------------------------------
(* Event objects live while something still refers to them *)

InPend(g, i) ==
    \E gid \in DOMAIN g : \E uid \in DOMAIN g[gid].members :
        i \in Range(g[gid].members[uid].pend)

\* handling of the event is suspended at an await of on_group_msg
Running(f) == f.pc \in {"llm", "send", "history", "lock"}

\* on_group_msg returned: the host goes on with an event that is woken and
\* not stopped, and will have a result for it
Handled(s, i) ==
    LET e == s.ev[i]
    IN  IF /\ s.fr[i].pc = "done" /\ ~e.stopped /\ e.is_at_or_wake_command
           /\ e.gid \in DOMAIN s.g /\ e.uid \in DOMAIN s.g[e.gid].members
        THEN [s EXCEPT !.owed = @ \cup {<<e.gid, e.uid>>}]
        ELSE s

Collect(s) ==
    LET dead(i) == s.fr[i].pc \in {"done", "error"} /\ ~InPend(s.g, i)
    IN  [s EXCEPT !.ev = [i \in Slots |-> IF dead(i) THEN NoEvent ELSE s.ev[i]],
                  !.fr = [i \in Slots |-> IF dead(i) THEN NoFrame ELSE s.fr[i]]]

\* r is the value random.random() returned, if the step called it
Drawn(s, r) == s.o.draw = r \/ (s.o.draw = -1 /\ r = 0)

\* the step of event i ends
Commit(s, i) ==
    LET c == Collect(Handled(s, i))
    IN  /\ groups' = c.g
        /\ events' = c.ev
        /\ frames' = c.fr
        /\ owed' = c.owed
        /\ obs' = [c.o EXCEPT !.flag = s.ev[i].is_at_or_wake_command,
                              !.stopped = s.ev[i].stopped]
        /\ UNCHANGED <<now, conf>>

---------------------------------------------------------------------------
(* Actions *)

\* Scope of the exploration: at most one coroutine is suspended at an await
\* at a time.  A message whose handler would be the second to suspend arrives
\* after the first is resumed; handlers that run to their end without
\* suspending interleave freely with the suspended one.
OneSuspended(fr) ==
    \A j, k \in Slots : (Running(fr[j]) /\ Running(fr[k])) => j = k

\* on_group_msg is called for a new message and runs to its first await
on_group_msg(i, gid, uid, m, r) ==
    /\ frames[i].pc = "free"
    /\ \A j \in Slots : j < i => frames[j].pc # "free"
    /\ LET s == list_check(Entry(i, gid, uid, m), i, r)
       IN  /\ Drawn(s, r)
           /\ OneSuspended(s.fr)
           /\ Commit(s, i)

\* what the await of _get_llm_respond gives: a text, None after an Exception
\* (line 146), or the CancelledError of a cancelled call, which is not caught
LLMResults == {"text", "none", "cancelled"}

\* await self._get_llm_respond(...) ends
_get_llm_respond(i, text, r) ==
    /\ frames[i].pc = "llm"
    /\ LET s0 == [Resume(i, "llm") EXCEPT !.o.hist = text]
           s  == CASE text = "text" -> [s0 EXCEPT !.fr[i].pc = "send"]
                   [] text = "none" -> Cascade(s0, i, r)
                   [] OTHER ->
                        [s0 EXCEPT !.fr[i] = [NoFrame EXCEPT !.pc = "error"],
                                   !.o.post = "CancelledError"]
       IN  Drawn(s, r) /\ Commit(s, i)

\* a send after which the event is not stopped
send_unstopped(i) ==
    /\ frames[i].pc = "send"
    /\ Commit(Return([Resume(i, "send") EXCEPT !.o.post = "canned"], i), i)

\* await event.send(...) returns: lines 229-230
send(i) ==
    /\ frames[i].pc = "send"
    /\ Commit(Return(stop_event(
                  [Resume(i, "send") EXCEPT !.o.post = "canned"], i), i), i)

\* await self._get_history_msg(...) returns
history_msg(i, conv, r) ==
    /\ frames[i].pc = "history"
    /\ LET s == relevant_wake(Resume(i, "hist"), i, conv)
           t == IF s.fr[i].pc = "error" THEN s ELSE AfterRelevant(s, i, r)
       IN  Drawn(t, r) /\ Commit(t, i)

\* lines 336-349: the host has a result for an event of sender (gid, uid)
\* and decorates it
on_message(gid, uid) ==
    /\ <<gid, uid>> \in owed
    /\ owed' = owed \ {<<gid, uid>>}
    /\ LET clear == /\ gid # ""
                    /\ conf.group_whitelist # {}
                    /\ gid \in conf.group_whitelist
           g  == get_group(groups, gid)
           \* the hook waits in  async with  while the lock is held
           waits == clear /\ g[gid].members[uid].lock
           s  == [ g  |-> IF clear /\ ~waits
                         THEN release(
                                  [acquire(g, gid, uid) EXCEPT
                                      ![gid].members[uid].pend = <<>>],
                                  gid, uid)
                         ELSE groups,
                   ev |-> events, fr |-> frames ]
           c  == Collect(s)
       IN  /\ groups' = c.g
           /\ events' = c.ev
           /\ frames' = c.fr
           /\ obs' = [ObsNone EXCEPT !.op = "hook", !.gid = gid, !.uid = uid,
                                     !.post = IF waits THEN "waits"
                                              ELSE IF clear THEN "clear"
                                              ELSE ""]
    /\ UNCHANGED <<now, conf>>

\* time passes
Tick ==
    /\ now < Epoch + MaxTicks
    /\ now' = now + 1
    /\ obs' = [ObsNone EXCEPT !.op = "tick"]
    /\ UNCHANGED <<conf, groups, events, frames, owed>>

Next ==
    \/ \E i \in Slots, a \in Arrivals(conf), r \in Draws(conf) :
           on_group_msg(i, a[1], a[2], a[3], r)
    \/ \E i \in Slots, text \in LLMResults, r \in Draws(conf) :
           _get_llm_respond(i, text, r)
    \/ \E i \in Slots : send(i)
    \/ \E i \in Slots, conv \in Conversations, r \in Draws(conf) : history_msg(i, conv, r)
    \/ \E gid \in GIDS, uid \in UIDS : on_message(gid, uid)
    \/ Tick

Spec == Init /\ [][Next]_vars

\* one configuration at a time
InitWake == WakeProPlugin(ConfWake)
InitPend == WakeProPlugin(ConfPend)
InitMute == WakeProPlugin(ConfMute)
InitGate == WakeProPlugin(ConfGate)
\* the plugin is constructed with the score-based triggers off, or with all on
InitQuiet == \E config \in {ConfQuiet, ConfWake} : WakeProPlugin(config)

SpecWake == InitWake /\ [][Next]_vars
SpecPend == InitPend /\ [][Next]_vars
SpecMute == InitMute /\ [][Next]_vars
SpecGate == InitGate /\ [][Next]_vars
SpecQuiet == InitQuiet /\ [][Next]_vars
\* the plugin is constructed for two groups with the mutes and the pending
\* window, or with all the triggers on
InitIso == \E config \in {ConfIso, ConfWake} : WakeProPlugin(config)
SpecIso == InitIso /\ [][Next]_vars
\* the plugin is constructed with a pending window longer than the cooldown,
\* as long as the cooldown, or shorter
InitBuffer == \E config \in {ConfIso, ConfQuiet, ConfWake} : WakeProPlugin(config)
SpecBuffer == InitBuffer /\ [][Next]_vars

---------------------------------------------------------------------------
(* Properties.  They read the observation obs of the most recent step: the *)
(* handler that stepped, the inputs it evaluated and what it decided.      *)

\* the member the most recent step handled a message of
ObsMember == groups[obs.gid].members[obs.uid]

\* the handler that stepped left the cascade, by its end or by an exception
\* of its own (a cancelled handler did not)
Finished(o) ==
    \/ o.op \in {"recv", "llm"} /\ o.cascade /\ "history" \notin o.calls
    \/ o.op = "hist" /\ o.hist # "cancelled"

\* the handler that stepped reached the post-wake checks
PostChecks == {"none", "shutup", "insult", "ai"}

\* the wake triggers in the order of the cascade
Order ==
    <<"at_or_cmd", "mention", "extend", "relevant", "ask", "bored", "prob">>

\* the condition of trigger t on the inputs the handler evaluated
Holds(o, t) ==
    CASE t = "at_or_cmd" -> o.at0
      [] t = "mention"   -> \E n \in conf.mention_wake :
                                n # <<>> /\ Contains(o.msg, n)
      [] t = "extend"    -> /\ conf.wake_extend # 0
                            /\ o.gap # -1 /\ o.gap <= conf.wake_extend
      [] t = "relevant"  -> conf.relevant_wake # 0 /\ o.hist = "high"
      [] t = "ask"       -> conf.ask_wake # 0 /\ ask(o.msg) > conf.ask_wake
      [] t = "bored"     -> /\ conf.bored_wake # 0
                            /\ bored(o.msg) > conf.bored_wake
      [] t = "prob"      -> /\ conf.prob_wake # 0
                            /\ o.draw # -1 /\ o.draw < conf.prob_wake

\* the collaborators trigger t consults
Evaluation(t) ==
    CASE t = "relevant" -> {"history", "cosine"}
      [] t = "ask"      -> {"ask"}
      [] t = "bored"    -> {"bored"}
      [] t = "prob"     -> {"random"}
      [] OTHER          -> {}

\* the position in Order of the first trigger whose condition holds, or 0
First(o) ==
    LET ks == {k \in DOMAIN Order : Holds(o, Order[k])}
    IN  IF ks = {} THEN 0 ELSE CHOOSE k \in ks : \A j \in ks : k <= j

\* C1: every message that reaches the cascade reports the reason of the first
\* trigger, in the order at/wake-command, mention, extension, relevance, ask,
\* bored, probabilistic, whose condition holds, and no later trigger is
\* evaluated once one has fired.
C1_CascadeOrder ==
    Finished(obs) =>
        LET k == First(obs)
        IN  /\ k = 0 => ~obs.wake
            /\ k # 0 =>
                 /\ obs.wake
                 /\ obs.reason = Order[k]
                 /\ \A j \in DOMAIN Order :
                        j > k => Evaluation(Order[j]) \cap obs.calls = {}

\* C2: after the history fetch the handler scores the message against the
\* fetched assistant messages, wakes by relevance iff one of the scores
\* exceeds relevant_wake, and in either case goes on to the later triggers
\* and the post-wake checks.
C2_TopicRelevance ==
    (obs.op = "hist" /\ obs.hist # "cancelled") =>
        /\ obs.post \in PostChecks
        /\ (obs.hist = "high") <=> (obs.wake /\ obs.reason = "relevant")

\* C3: a message is never woken less than wake_cd after the previous wake of
\* its member, and every message handled inside that window is stopped.
C3_WakeCooldown ==
    /\ obs.wake => now - obs.prev_wake >= conf.wake_cd
    /\ (obs.op = "recv" /\ obs.gap # -1 /\ obs.gap < conf.wake_cd)
           => obs.stopped

\* C4: a message whose shut score exceeds the threshold sets the group's
\* shutup_until to now + score * sult_multiple and is stopped; while
\* now < shutup_until no message of the group is woken and left to be answered,
\* whichever point its handler had reached when the shutup fired.
C4_GroupShutup ==
    /\ (obs.post \in PostChecks /\ conf.shutup # 0
            /\ shut(obs.msg) > conf.shutup)
           => /\ obs.stopped
              /\ groups[obs.gid].shutup_until =
                     now + shut(obs.msg) * conf.sult_multiple
    /\ (obs.wake /\ ~obs.stopped) => ~_is_shutup(groups[obs.gid])

\* C5: a message arriving from a member whose silence_until is in the future
\* is stopped at the gates, whatever its text and flag, it is not woken, and
\* the store (last_wake, silence_until, pend_cd, pend of every member,
\* shutup_until of every group) is left as it was.
C5_SilencedMember ==
    [][ LET o == obs'
        IN  ( /\ o.op = "recv"
              /\ o.gid \in DOMAIN groups
              /\ o.uid \in DOMAIN groups[o.gid].members
              /\ groups[o.gid].members[o.uid].silence_until > now )
            => /\ o.gate # "" /\ o.stopped /\ ~o.wake
               /\ groups' = groups ]_vars

\* C5 happens: a silenced member's message that carries the at/wake-command
\* flag has been stopped by the silence check
C5_SilencedMember_Witness ==
    /\ obs.op = "recv" /\ obs.gate = "insult" /\ obs.flag /\ obs.stopped
    /\ ObsMember.silence_until > now

\* C6: handling a message of a deny-listed sender stops the event and leaves
\* the store exactly as it was: no GroupState or MemberState is created or
\* modified, also for a group never seen before.
C6_DenyListReadOnly ==
    [][ (obs'.op = "recv" /\ obs'.uid \in conf.user_blacklist)
            => (obs'.stopped /\ groups' = groups) ]_vars

\* C7: when a member has three unwoken messages in the pending buffer, the
\* newest is the one merged event, its text is the three original texts in
\* oldest-to-newest order, each once, and the two older events are stopped.
C7_PendingMerge ==
    \A gid \in DOMAIN groups : \A uid \in DOMAIN groups[gid].members :
        LET pend == groups[gid].members[uid].pend
        IN  ( /\ Len(pend) = 3
              /\ ~events[pend[1]].is_at_or_wake_command
              /\ ~events[pend[2]].is_at_or_wake_command )
            => /\ events[pend[3]].message_str =
                      events[pend[1]].orig \o events[pend[2]].orig
                          \o events[pend[3]].orig
               /\ events[pend[1]].stopped /\ events[pend[2]].stopped
               /\ ~events[pend[3]].stopped

\* C8: after a pending merge, what the handler evaluates for the event (the
\* text its triggers and scorers read) is the merged text of the event.
C8_MergedTextEvaluated ==
    (obs.op = "recv" /\ obs.cascade /\ obs.merged > 1)
        => obs.msg = events[ObsMember.pend[Len(ObsMember.pend)]].message_str

\* C9: whenever the result-decorating hook has run for a member's event, the
\* member's pending buffer is empty, with or without a group allow-list.
C9_PendClearedAfterResponse ==
    obs.op = "hook" => ObsMember.pend = <<>>

\* C10: a message that reaches the post-wake checks with an insult score
\* above the threshold sets its member's silence_until to
\* now + score * sult_multiple and is not stopped; a message arriving from a
\* member whose silence_until is in the future is stopped.
C10_InsultMute ==
    [][ LET o == obs'
        IN  /\ ( /\ o.post \in PostChecks /\ conf.insult # 0
                 /\ insult(o.msg) > conf.insult )
               => /\ groups'[o.gid].members[o.uid].silence_until =
                         now + insult(o.msg) * conf.sult_multiple
                  /\ ~o.stopped
            /\ ( /\ o.op = "recv"
                 /\ o.gid \in DOMAIN groups
                 /\ o.uid \in DOMAIN groups[o.gid].members
                 /\ groups[o.gid].members[o.uid].silence_until > now )
               => o.stopped ]_vars

\* C11: a message that reaches the post-wake checks with an insult score
\* above the ai threshold sets its member's silence_until to
\* now + score * silence_multiple and is stopped, whether or not the shutup
\* or the insult check fire on the same message.
C11_AiMuteIndependent ==
    (obs.post \in PostChecks /\ conf.ai # 0 /\ insult(obs.msg) > conf.ai)
        => /\ ObsMember.silence_until =
                  now + insult(obs.msg) * conf.silence_multiple
           /\ obs.stopped

\* the extension, relevance, ask, bored and probabilistic triggers are off
ScoreTriggersOff ==
    /\ conf.wake_extend = 0 /\ conf.relevant_wake = 0 /\ conf.ask_wake = 0
    /\ conf.bored_wake = 0 /\ conf.prob_wake = 0

\* C12: with the extension, relevance, ask, bored and probabilistic triggers
\* off, a message is woken only if its at/wake-command flag was set or its
\* text contains a mention name, and none of those triggers is evaluated.
C12_OnlyExplicitWake ==
    (ScoreTriggersOff /\ obs.op \in {"recv", "llm", "hist"})
        => /\ obs.wake =>
                 /\ obs.at0 \/ \E n \in conf.mention_wake :
                                   n # <<>> /\ Contains(obs.msg, n)
                 /\ obs.reason \in {"at_or_cmd", "mention"}
           /\ obs.calls \cap {"history", "cosine", "ask", "bored", "random"}
                  = {}

\* C12 happens: with those triggers off a question without flag or name went
\* through the cascade and the post-wake checks unwoken
C12_OnlyExplicitWake_Witness ==
    /\ ScoreTriggersOff /\ obs.op = "recv" /\ obs.cascade
    /\ obs.msg = <<"why">> /\ ~obs.at0 /\ ~obs.wake /\ obs.post = "none"

\* C13: when the history fetch fails, is cancelled or returns None, the
\* relevance trigger does not fire and the handler goes on with the ask, bored
\* and probabilistic triggers to the post-wake checks; when the LLM call of
\* the empty-mention path fails or is cancelled, the handler goes on with the
\* cascade; the event is then stopped only by a post-wake check.
C13_FailSoft ==
    /\ (obs.op = "hist" /\ obs.hist \in {"none", "cancelled"})
           => /\ obs.post \in PostChecks
              /\ obs.reason # "relevant"
              /\ conf.ask_wake # 0 => "ask" \in obs.calls
              /\ obs.stopped => obs.post \in {"shutup", "ai"}
    /\ (obs.op = "llm" /\ obs.hist \in {"none", "cancelled"})
           => /\ obs.cascade
              /\ obs.stopped => obs.post \in {"shutup", "ai"}

\* last_wake and silence_until of every member and shutup_until of every
\* group of the store gs; a record not yet created counts with its defaults
Stamps(gs) ==
    [ gid \in GIDS |->
        [ shutup_until |-> IF gid \in DOMAIN gs THEN gs[gid].shutup_until ELSE 0,
          members |->
            [ uid \in UIDS |->
                IF gid \in DOMAIN gs /\ uid \in DOMAIN gs[gid].members
                THEN << gs[gid].members[uid].last_wake,
                        gs[gid].members[uid].silence_until >>
                ELSE <<0, 0>> ] ] ]

\* C14: an empty message that is one at-mention of the bot and passes the
\* gates calls the LLM; when the LLM returns a text, the text is sent and the
\* event stopped; in none of the three steps is the cascade or a post-wake
\* check evaluated, and last_wake, silence_until and shutup_until stay as
\* they were.
C14_EmptyMention ==
    [][ LET o == obs'
            canned == \/ o.op = "recv" /\ "llm" \in o.calls
                      \/ o.op = "llm" /\ o.hist = "text"
                      \/ o.op = "send"
        IN  canned =>
              /\ o.msg = <<>>
              /\ ~o.cascade /\ ~o.wake /\ o.calls = {"llm"}
              /\ o.post = IF o.op = "send" THEN "canned" ELSE ""
              /\ o.op = "send" => o.stopped
              /\ o.op = "llm" =>
                     \E i \in Slots : frames[i].pc = "llm"
                                      /\ frames'[i].pc = "send"
              /\ Stamps(groups') = Stamps(groups) ]_vars

\* C14 happens: the canned answer of an empty mention has been sent and the
\* event stopped
C14_EmptyMention_Witness ==
    obs.op = "send" /\ obs.post = "canned" /\ obs.stopped /\ obs.msg = <<>>

\* the message the most recent step received arrived inside the extension
\* window of its member and carries neither the flag nor a mention name
ExtensionOnly ==
    /\ obs.op = "recv" /\ conf.wake_extend # 0
    /\ obs.gap # -1 /\ obs.gap <= conf.wake_extend
    /\ ~obs.at0
    /\ ~\E n \in conf.mention_wake : n # <<>> /\ Contains(obs.msg, n)

\* the message the most recent step received was woken by the extension, and
\* its member's last_wake is now
ExtensionWoke ==
    obs.wake /\ obs.reason = "extend" /\ ObsMember.last_wake = now

\* C15 as claimed: every message that arrives with
\* now - last_wake <= wake_extend and no other trigger is woken by the
\* extension and sets last_wake to now.
C15_WakeExtension_Claimed == ExtensionOnly => ExtensionWoke

\* C15: a message that arrives with now - last_wake <= wake_extend and no
\* other trigger, and that passes the gates (in particular
\* wake_cd <= now - last_wake), is woken by the extension and sets last_wake
\* to now.
C15_WakeExtension == (ExtensionOnly /\ obs.gate = "") => ExtensionWoke

\* C15 happens: a message sent one clock unit after its member's wake has
\* been woken by the extension
C15_WakeExtension_Witness ==
    ExtensionOnly /\ ExtensionWoke /\ obs.gap = 1 /\ obs.prev_wake = now - 1

\* C16: when the handler of an earlier message of a member is resumed after
\* the handler of a later message of the same member has written last_wake
\* (silence_until), the resumed handler does not write last_wake
\* (silence_until) any more: the writes of the earlier message come first.
C16_UpdateOrder ==
    [][ \A i \in Slots :
          (Running(frames[i]) /\ frames'[i] # frames[i]) =>
             LET m == groups[events[i].gid].members[events[i].uid]
             IN  /\ m.last_wake # frames[i].stamp[1] => ~obs'.wake
                 /\ m.silence_until # frames[i].stamp[2]
                        => obs'.post \notin {"insult", "ai"} ]_vars

\* C17: a member's lock is taken only for the buffer append/merge and for the
\* buffer clear and is released in the same step: at every suspension point
\* every lock is free, so no handler and no hook ever waits for a lock, of
\* its own member or of another.
C17_LockDiscipline ==
    /\ \A gid \in DOMAIN groups : \A uid \in DOMAIN groups[gid].members :
           ~groups[gid].members[uid].lock
    /\ \A i \in Slots : frames[i].pc # "lock"
    /\ obs.post # "waits"

\* C17 happens: a handler took its member's lock, merged buffered events and
\* left the lock free, while another handler is suspended on its send
C17_LockDiscipline_Witness ==
    /\ obs.op = "recv" /\ obs.merged > 1
    /\ \E i \in Slots : frames[i].pc = "send"
    /\ ~ObsMember.lock

\* C18: over every step, each member's last_wake never decreases, and it
\* changes only in a step of a handler of that member whose cascade decided
\* to wake.
C18_LastWakeMonotone ==
    [][ \A gid \in DOMAIN groups : \A uid \in DOMAIN groups[gid].members :
          LET before == groups[gid].members[uid].last_wake
              after  == groups'[gid].members[uid].last_wake
          IN  /\ before <= after
              /\ before # after =>
                    /\ obs'.op \in {"recv", "llm", "hist"}
                    /\ obs'.gid = gid /\ obs'.uid = uid
                    /\ obs'.wake ]_vars

\* C18 happens: a member woken at the first clock reading is woken again
\* after the clock advanced, in a handler resumed from its history fetch
C18_LastWakeMonotone_Witness ==
    /\ obs.op = "hist" /\ obs.wake
    /\ obs.prev_wake = Epoch /\ ObsMember.last_wake = Epoch + 1

\* the fields of a member that a handler of another member must not touch
Private(m) == <<m.last_wake, m.silence_until, m.pend_cd, m.pend>>

\* C19: a step of the handler or of the hook of member u in group g creates
\* no group but g and no member but (g, u), leaves shutup_until of every
\* other group and last_wake, silence_until, pend_cd and pend of every other
\* member as they were, and stops the message at the shutup or at the
\* silence check only for a mute of g, resp. of (g, u), itself.
C19_StateIsolation ==
    [][ obs'.op \in {"recv", "llm", "hist", "send", "hook"} =>
          LET g == obs'.gid
              u == obs'.uid
          IN  /\ DOMAIN groups' \subseteq DOMAIN groups \cup {g}
              /\ \A gid \in DOMAIN groups :
                    /\ gid # g => groups'[gid].shutup_until =
                                      groups[gid].shutup_until
                    /\ DOMAIN groups'[gid].members \subseteq
                           DOMAIN groups[gid].members
                               \cup (IF gid = g THEN {u} ELSE {})
                    /\ \A uid \in DOMAIN groups[gid].members :
                          <<gid, uid>> # <<g, u>> =>
                              Private(groups'[gid].members[uid]) =
                                  Private(groups[gid].members[uid])
              /\ obs'.gate = "shutup" =>
                    /\ g \in DOMAIN groups
                    /\ groups[g].shutup_until > now
              /\ obs'.gate = "insult" =>
                    /\ g \in DOMAIN groups
                    /\ u \in DOMAIN groups[g].members
                    /\ groups[g].members[u].silence_until > now ]_vars

\* C19 happens: the message of user u1 in group g2 reaches the cascade while
\* the same user id is silenced in group g1 and has events buffered there
C19_StateIsolation_Witness ==
    /\ obs.op = "recv" /\ obs.gid = "g2" /\ obs.uid = "u1"
    /\ obs.gate = "" /\ obs.cascade
    /\ "g1" \in DOMAIN groups /\ "u1" \in DOMAIN groups["g1"].members
    /\ groups["g1"].members["u1"].silence_until > now
    /\ groups["g1"].members["u1"].pend # <<>>

\* the pending buffer of a member, empty for a member not yet stored
PendOf(gs, gid, uid) ==
    IF gid \in DOMAIN gs /\ uid \in DOMAIN gs[gid].members
    THEN gs[gid].members[uid].pend
    ELSE <<>>

\* C20: a step puts something into a member's pending buffer only if it is
\* the first step of a handler of that member which passed every gating
\* check with wake_cd <= now - last_wake < pend_cd; and under a
\* configuration with pend_cd <= wake_cd no step buffers or merges an event
\* and every pending buffer is empty.
C20_BufferWindow ==
    [][ \A gid \in DOMAIN groups' : \A uid \in DOMAIN groups'[gid].members :
          LET before == PendOf(groups, gid, uid)
              after  == PendOf(groups', gid, uid)
          IN  /\ (after # before /\ after # <<>>) =>
                    /\ obs'.op = "recv"
                    /\ obs'.gid = gid /\ obs'.uid = uid
                    /\ obs'.gate = ""
                    /\ obs'.merged = Len(after)
                    /\ conf.wake_cd <= obs'.gap /\ obs'.gap < conf.pend_cd
              /\ obs'.merged > 0 => after # before \/ obs'.gid # gid
                                                   \/ obs'.uid # uid
              /\ conf.pend_cd <= conf.wake_cd =>
                    after = <<>> /\ obs'.merged = 0 ]_vars

\* C20 happens: a message that passed the gates one second after the
\* member's wake, with a cooldown of 1 and a window of 2, is buffered
C20_BufferWindow_Witness ==
    /\ obs.op = "recv" /\ obs.gate = "" /\ obs.merged = 1 /\ obs.gap = 1
    /\ conf.wake_cd = 1 /\ conf.pend_cd = 2
    /\ Len(ObsMember.pend) = 1

====
